---------------------------- MODULE Spec2Model ----------------------------
(***************************************************************************)
(* Model of app.py (Prontuario Nuove Aperture): the section extractor      *)
(* carica_descrizioni_funzioni, the key resolver                           *)
(* trova_descrizione_funzione, the timeline queries                        *)
(* mostra_attivita_per_giorno / mostra_attivita_senza_giorni and the view  *)
(* coordinator of main.                                                    *)
(*                                                                         *)
(* Text is a sequence of one-character strings.  The two marker phrases    *)
(* of the document and the "\n\n" separator are single tokens of a text.   *)
(* A pandas cell is <<>> when it is NaN and <<v>> when it holds v.         *)
(***************************************************************************)
EXTENDS Integers, Sequences, FiniteSets, TLC

VARIABLES
    paragraphs,     \* doc.paragraphs: the raw paragraph texts
    i,              \* position of the outer scan (0-based, as in the code)
    descrizioni,    \* dict title -> body, as a sequence in insertion order
    pc,             \* position of the running function
    funzione,       \* argument of trova_descrizione_funzione
    trovata,        \* its return value
    df,             \* the dataset, a sequence of rows
    giorno,         \* value of the day slider
    query,          \* value of the search box
    per_giorno,     \* what mostra_attivita_per_giorno rendered
    senza_giorni,   \* what mostra_attivita_senza_giorni rendered
    vista,          \* st.session_state["vista"]
    funzione_dett,  \* st.session_state["funzione_dett"]
    giorni_data,    \* (data_apertura - oggi).days
    pagina          \* what the last evaluation pass of main rendered

vars == <<paragraphs, i, descrizioni, pc, funzione, trovata, df, giorno, query,
          per_giorno, senza_giorni, vista, funzione_dett, giorni_data, pagina>>

-----------------------------------------------------------------------------
(* Text helpers *)

QuestoCapitolo == "Questo capitolo"
SchemaRiassuntivo == "Schema Riassuntivo"
BlankLine == "\n\n"

Whitespace == {" "}
\* the characters of strip(" :\u2013-") that occur in the texts of the model
TitleTrim == {" ", ":", "-"}

RECURSIVE LStrip(_, _)
LStrip(s, chars) ==
    IF s # <<>> /\ Head(s) \in chars THEN LStrip(Tail(s), chars) ELSE s

RECURSIVE RStrip(_, _)
RStrip(s, chars) ==
    IF s # <<>> /\ s[Len(s)] \in chars
    THEN RStrip(SubSeq(s, 1, Len(s) - 1), chars)
    ELSE s

StripChars(s, chars) == RStrip(LStrip(s, chars), chars)

Strip(s) == StripChars(s, Whitespace)

\* Python's "sub in s" for texts
IsSubstring(sub, s) ==
    \E o \in 0..(Len(s) - Len(sub)) :
        \A k \in 1..Len(sub) : s[o + k] = sub[k]

HasToken(s, tok) == \E k \in 1..Len(s) : s[k] = tok

\* s.split(tok, 1)[0]
BeforeToken(s, tok) ==
    IF HasToken(s, tok)
    THEN LET p == CHOOSE k \in 1..Len(s) :
                     s[k] = tok /\ \A m \in 1..(k - 1) : s[m] # tok
         IN SubSeq(s, 1, p - 1)
    ELSE s

LowerChar(c) ==
    CASE c = "A" -> "a"
      [] c = "B" -> "b"
      [] c = QuestoCapitolo -> "questo capitolo"
      [] c = SchemaRiassuntivo -> "schema riassuntivo"
      [] OTHER -> c

Lower(s) == [k \in 1..Len(s) |-> LowerChar(s[k])]

\* "\n\n".join(blocco)
RECURSIVE Join(_)
Join(blocco) ==
    IF blocco = <<>> THEN <<>>
    ELSE IF Len(blocco) = 1 THEN blocco[1]
    ELSE blocco[1] \o <<BlankLine>> \o Join(Tail(blocco))

-----------------------------------------------------------------------------
(* dict, in insertion order *)

Keys(d) == {d[k].k : k \in 1..Len(d)}

DictGet(d, key) == (CHOOSE e \in {d[k] : k \in 1..Len(d)} : e.k = key).v

DictSet(d, key, val) ==
    IF key \in Keys(d)
    THEN [k \in 1..Len(d) |-> IF d[k].k = key THEN [k |-> key, v |-> val] ELSE d[k]]
    ELSE Append(d, [k |-> key, v |-> val])

-----------------------------------------------------------------------------
(* carica_descrizioni_funzioni: the scan of the paragraphs *)

MaxParas == 4

ParagraphTexts ==
    { <<" ">>,
      <<" ", "a", " ">>,
      <<"A", "b", ":", " ", QuestoCapitolo, "a">>,
      <<" ", "A", "b", " ", "-", QuestoCapitolo>>,
      <<QuestoCapitolo, " ">>,
      <<"b", QuestoCapitolo, SchemaRiassuntivo>>,
      <<SchemaRiassuntivo, "a">> }

Documents ==
    UNION {[1..n -> ParagraphTexts] : n \in 0..MaxParas}

IsHeader(text) == HasToken(text, QuestoCapitolo)

\* an inner loop that stops at the next header only
IsHeaderOnly(text) == HasToken(text, QuestoCapitolo)

\* the break condition of the inner loop
IsBoundary(text) ==
    HasToken(text, QuestoCapitolo) \/ HasToken(text, SchemaRiassuntivo)

NomeFunzione(text) == StripChars(BeforeToken(text, QuestoCapitolo), TitleTrim)

\* the inner while loop, from position j with the block collected so far
RECURSIVE InnerScan(_, _, _)
InnerScan(pars, j, blocco) ==
    IF j < Len(pars)
    THEN LET t2 == Strip(pars[j + 1])
         IN IF IsBoundary(t2)
            THEN [j |-> j, blocco |-> blocco]
            ELSE InnerScan(pars, j + 1,
                           IF Strip(t2) # <<>> THEN Append(blocco, t2) ELSE blocco)
    ELSE [j |-> j, blocco |-> blocco]

\* a scan that starts the inner loop on the header itself
InnerStartOnHeader(pos) == pos

\* j = i + 1
InnerStart(pos) == pos + 1

\* the body of the outer while loop at position pos with mapping d
OuterStep(pars, pos, d) ==
    LET text == Strip(pars[pos + 1])
    IN IF IsHeader(text)
       THEN LET r == InnerScan(pars, InnerStart(pos), <<text>>)
            IN [i |-> r.j,
                descrizioni |-> DictSet(d, NomeFunzione(text), Join(r.blocco))]
       ELSE [i |-> pos + 1, descrizioni |-> d]

\* the whole scan, for a caller that only needs its result
RECURSIVE ScanFrom(_, _, _)
ScanFrom(pars, pos, d) ==
    IF pos < Len(pars)
    THEN LET r == OuterStep(pars, pos, d) IN ScanFrom(pars, r.i, r.descrizioni)
    ELSE d

carica_descrizioni_funzioni(pars) == ScanFrom(pars, 0, <<>>)

\* one iteration of the outer while loop
OuterIteration ==
    /\ pc = "scan"
    /\ i < Len(paragraphs)
    /\ LET r == OuterStep(paragraphs, i, descrizioni)
       IN /\ i' = r.i
          /\ descrizioni' = r.descrizioni
    /\ UNCHANGED <<paragraphs, pc, funzione, trovata, df, giorno, query,
                   per_giorno, senza_giorni, vista, funzione_dett, giorni_data,
                   pagina>>

ScanReturn ==
    /\ pc = "scan"
    /\ ~(i < Len(paragraphs))
    /\ pc' = "done"
    /\ UNCHANGED <<paragraphs, i, descrizioni, funzione, trovata, df, giorno,
                   query, per_giorno, senza_giorni, vista, funzione_dett,
                   giorni_data, pagina>>

Idle ==
    /\ funzione = <<>> /\ trovata = <<>> /\ df = <<>> /\ giorno = 0
    /\ query = <<>> /\ per_giorno = <<>> /\ senza_giorni = <<>>
    /\ vista = "piano" /\ funzione_dett = <<>> /\ giorni_data = 0
    /\ pagina = <<>>

InitExtract ==
    /\ paragraphs \in Documents
    /\ i = 0
    /\ descrizioni = <<>>
    /\ pc = "scan"
    /\ Idle

NextExtract == OuterIteration \/ ScanReturn

SpecExtract == InitExtract /\ [][NextExtract]_vars

-----------------------------------------------------------------------------
(* Properties of the section extractor *)

\* positions are 0-based, as in the code
Par(p) == paragraphs[p + 1]

HeaderAt(p) == HasToken(Par(p), QuestoCapitolo)

MarkerAt(p) == HeaderAt(p) \/ HasToken(Par(p), SchemaRiassuntivo)

\* first position after p that holds a header marker or the stop marker
BoundaryAfter(p) ==
    LET B == {q \in (p + 1)..(Len(paragraphs) - 1) : MarkerAt(q)}
    IN IF B = {} THEN Len(paragraphs)
       ELSE CHOOSE q \in B : \A r \in B : q <= r

NonBlank(text) == \E k \in 1..Len(text) : text[k] \notin Whitespace

\* the positions lo..hi that hold a non-blank paragraph, in order
RECURSIVE NonBlankBetween(_, _)
NonBlankBetween(lo, hi) ==
    IF lo > hi THEN <<>>
    ELSE (IF NonBlank(Par(lo)) THEN <<lo>> ELSE <<>>) \o NonBlankBetween(lo + 1, hi)

BlocksBetween(lo, hi, Conv(_)) ==
    LET ps == NonBlankBetween(lo, hi)
    IN [k \in 1..Len(ps) |-> Conv(Par(ps[k]))]

AsWritten(text) == text

BodyOf(p, Conv(_)) ==
    Join(<<Conv(Par(p))>> \o BlocksBetween(p + 1, BoundaryAfter(p) - 1, Conv))

\* the header whose body the mapping holds: the last one scanned with that title
LastScanned(p) ==
    /\ p < i
    /\ HeaderAt(p)
    /\ \A q \in (p + 1)..(i - 1) :
           HeaderAt(q) => NomeFunzione(Strip(Par(q))) # NomeFunzione(Strip(Par(p)))

StoredBodies(Conv(_)) ==
    /\ Keys(descrizioni) =
           {NomeFunzione(Strip(Par(p))) : p \in {q \in 0..(i - 1) : HeaderAt(q)}}
    /\ \A p \in 0..(Len(paragraphs) - 1) :
           LastScanned(p) =>
               DictGet(descrizioni, NomeFunzione(Strip(Par(p)))) = BodyOf(p, Conv)

\* C7 as stated: the body stored for a header at position p is the header
\* paragraph followed by the non-blank paragraphs at p+1..b-1, as written,
\* joined by a blank line, b being the first later position with a header
\* marker or the stop marker; the boundary and what follows a stop marker are
\* in no body.
C7_BodyOfParagraphsAsWritten == StoredBodies(AsWritten)

\* C7 amended: the same, with every paragraph taken with its leading and
\* trailing whitespace removed.
C7_BodyOfStrippedParagraphs == StoredBodies(Strip)

\* a finished scan that stored a two-block section closed by a stop marker
\* that is followed by a paragraph belonging to no section
C7_Witness ==
    /\ pc = "done"
    /\ \E p \in 0..(Len(paragraphs) - 1) :
           /\ LastScanned(p)
           /\ BoundaryAfter(p) < Len(paragraphs) - 1
           /\ ~HeaderAt(BoundaryAfter(p))
           /\ NonBlank(Par(BoundaryAfter(p) + 1))
           /\ ~MarkerAt(BoundaryAfter(p) + 1)
           /\ Len(BlocksBetween(p + 1, BoundaryAfter(p) - 1, Strip)) = 1

\* C10: every iteration of the outer loop moves the scan position strictly
\* forward and never past the end of the paragraphs, so the scan returns after
\* at most Len(paragraphs) iterations.
C10_ScanTerminates ==
    [][pc = "scan" /\ pc' = "scan" => i < i' /\ i' <= Len(paragraphs)]_vars

\* a finished scan of a document with two adjacent headers, the second one
\* last and holding the stop marker too
C10_Witness ==
    /\ pc = "done"
    /\ Len(paragraphs) >= 2
    /\ HeaderAt(Len(paragraphs) - 2)
    /\ HeaderAt(Len(paragraphs) - 1)
    /\ HasToken(Par(Len(paragraphs) - 1), SchemaRiassuntivo)

-----------------------------------------------------------------------------
(* trova_descrizione_funzione *)

MaxKeys == 2

Titles == { <<>>, <<"a">>, <<"b">>, <<"A", "b">>, <<"A", "B">>, <<"a", "b", "a">> }

Names == { <<>>, <<"a">>, <<"B">>, <<"A", "b">>, <<"b", "a">> }

\* a body always starts with its header paragraph
BodyFor(title) == title \o <<" ", QuestoCapitolo>>

Injective(ks) == \A m, n \in 1..Len(ks) : m # n => ks[m] # ks[n]

Mappings ==
    { [k \in 1..Len(ks) |-> [k |-> ks[k], v |-> BodyFor(ks[k])]] :
        ks \in {t \in UNION {[1..n -> Titles] : n \in 0..MaxKeys} : Injective(t)} }

FuzzyMatch(k, name) ==
    IsSubstring(Lower(k), Lower(name)) \/ IsSubstring(Lower(name), Lower(k))

\* for k in descrizioni.keys(): ...
RECURSIVE ScanKeys(_, _, _)
ScanKeys(name, d, n) ==
    IF n > Len(d) THEN <<>>
    ELSE IF FuzzyMatch(d[n].k, name) THEN <<d[n].k, d[n].v>>
    ELSE ScanKeys(name, d, n + 1)

\* a resolver without the exact lookup
trova_senza_esatta(name, d) == ScanKeys(name, d, 1)

\* returns <<key, body>>, or <<>> for (None, None)
trova_descrizione_funzione(name, d) ==
    IF name \in Keys(d) THEN <<name, DictGet(d, name)>>
    ELSE ScanKeys(name, d, 1)

Resolve(name) ==
    /\ pc \in {"resolver", "resolved"}
    /\ funzione' = name
    /\ trovata' = trova_descrizione_funzione(name, descrizioni)
    /\ pc' = "resolved"
    /\ UNCHANGED <<paragraphs, i, descrizioni, df, giorno, query, per_giorno,
                   senza_giorni, vista, funzione_dett, giorni_data, pagina>>

InitResolve ==
    /\ paragraphs = <<>> /\ i = 0
    /\ descrizioni \in Mappings
    /\ pc = "resolver"
    /\ Idle

NextResolve == \E name \in Names : Resolve(name)

SpecResolve == InitResolve /\ [][NextResolve]_vars

-----------------------------------------------------------------------------
(* Properties of the key resolver *)

Matching == {n \in 1..Len(descrizioni) : FuzzyMatch(descrizioni[n].k, funzione)}

FirstMatching == CHOOSE n \in Matching : \A m \in Matching : n <= m

\* C8: an exact key wins even over an earlier key that matches by substring;
\* otherwise the first key in insertion order that contains, or is contained
\* in, the name (both lower-cased) is returned; not-found is returned exactly
\* when the name is no key and no key matches.
C8_Resolution ==
    pc = "resolved" =>
        /\ funzione \in Keys(descrizioni)
               => trovata = <<funzione, DictGet(descrizioni, funzione)>>
        /\ funzione \notin Keys(descrizioni) /\ Matching # {}
               => trovata = <<descrizioni[FirstMatching].k,
                              descrizioni[FirstMatching].v>>
        /\ trovata = <<>> <=> (funzione \notin Keys(descrizioni) /\ Matching = {})

\* the name is the second key and the first key matches it by substring
C8_Witness ==
    /\ pc = "resolved"
    /\ Len(descrizioni) = 2
    /\ funzione = descrizioni[2].k
    /\ 1 \in Matching
    /\ trovata[1] = funzione

-----------------------------------------------------------------------------
(* The dataset and the two timeline queries *)

MaxRows == 2
MaxDay == 1

NaN == <<>>
Cell(v) == <<v>>
IsNa(c) == c = NaN

Funzioni == { <<"B">>, <<"a">> }

\* the text cells of a row: Operazione, Di_cosa_ho_bisogno, Note
Testi ==
    { [Operazione |-> Cell(<<"a", "B">>), Di_cosa_ho_bisogno |-> NaN,
       Note |-> Cell(<<"b", ".">>)],
      [Operazione |-> NaN, Di_cosa_ho_bisogno |-> Cell(<<"A", " ">>),
       Note |-> NaN] }

Row(f, d, t) ==
    [Funzione |-> f, Tempistica_GG |-> d, Operazione |-> t.Operazione,
     Di_cosa_ho_bisogno |-> t.Di_cosa_ho_bisogno, Note |-> t.Note]

Rows(funzioni, days, testi) ==
    {Row(f, d, t) : f \in funzioni, d \in days, t \in testi}

Datasets(rows) == UNION {[1..n -> rows] : n \in 0..MaxRows}

Queries ==
    { <<>>, <<" ">>, <<"B">>, <<"a", "b">>, <<".">>, <<"A", ".">>,
      <<"b", "b">>, <<"(">> }

\* the pattern language of the queries of the model: "." matches any
\* character, "(" opens a group that nothing closes, the rest is literal
RegexCompiles(pat) == ~HasToken(pat, "(")

RegexSearch(pat, s) ==
    \E o \in 0..(Len(s) - Len(pat)) :
        \A k \in 1..Len(pat) : pat[k] = "." \/ pat[k] = s[o + k]

\* col.str.lower().str.contains(q, na=False)
StrContains(cell, q) == ~IsNa(cell) /\ RegexSearch(q, Lower(cell[1]))

RowMatches(row, q) ==
    \/ StrContains(row.Operazione, q)
    \/ StrContains(row.Note, q)
    \/ StrContains(row.Di_cosa_ho_bisogno, q)
    \/ StrContains(row.Funzione, q)

\* the index labels of the rows; a selection df[mask] keeps a subsequence
Index(d) == [k \in 1..Len(d) |-> k]

\* code points of the characters of the model
Ord(c) ==
    CASE c = " " -> 32
      [] c = "(" -> 40
      [] c = "-" -> 45
      [] c = "." -> 46
      [] c = ":" -> 58
      [] c = "A" -> 65
      [] c = "B" -> 66
      [] c = "a" -> 97
      [] c = "b" -> 98
      [] OTHER -> 1000

RECURSIVE StrLess(_, _)
StrLess(a, b) ==
    IF a = <<>> THEN b # <<>>
    ELSE IF b = <<>> THEN FALSE
    ELSE IF Head(a) = Head(b) THEN StrLess(Tail(a), Tail(b))
    ELSE Ord(Head(a)) < Ord(Head(b))

\* an order that ignores case
StrLessIgnoreCase(a, b) == StrLess(Lower(a), Lower(b))

\* the order sorted() uses on str
SortLess(a, b) == StrLess(a, b)

RECURSIVE Sorted(_)
Sorted(S) ==
    IF S = {} THEN <<>>
    ELSE LET m == CHOOSE x \in S : \A y \in S \ {x} : SortLess(x, y)
         IN <<m>> \o Sorted(S \ {m})

\* a test for None only
TruthyNotNone(found) == found # <<>>

\* if key_descr: (None and "" are both false)
Truthy(found) == found # <<>> /\ found[1] # <<>>

\* what the page shows for one function: the badge, the button when a
\* description resolves, and the steps "Passo idx+1" of df_f
Gruppo(d, df_g, f, descr) ==
    LET df_f == SelectSeq(df_g, LAMBDA k : d[k].Funzione = Cell(f))
    IN [funzione |-> f,
        bottone |-> Truthy(trova_descrizione_funzione(f, descr)),
        passi |-> [k \in 1..Len(df_f) |-> [passo |-> k, riga |-> df_f[k]]]]

\* returns what was rendered; "errore" stands for the exception of str.contains
mostra_attivita_per_giorno(d, g, q, descr) ==
    LET df_day == SelectSeq(Index(d), LAMBDA k : d[k].Tempistica_GG = Cell(g))
    IN IF Strip(q) # <<>> /\ ~RegexCompiles(Lower(q))
       THEN [esito |-> "errore", righe |-> <<>>, gruppi |-> <<>>]
       ELSE LET df_g == IF Strip(q) # <<>>
                        THEN SelectSeq(df_day, LAMBDA k : RowMatches(d[k], Lower(q)))
                        ELSE df_day
            IN IF df_g = <<>>
               THEN [esito |-> "vuoto", righe |-> <<>>, gruppi |-> <<>>]
               ELSE LET fs == Sorted({d[df_g[k]].Funzione[1] :
                                        k \in {n \in 1..Len(df_g) :
                                                 ~IsNa(d[df_g[n]].Funzione)}})
                    IN [esito |-> "ok",
                        righe |-> df_g,
                        gruppi |-> [k \in 1..Len(fs) |->
                                      Gruppo(d, df_g, fs[k], descr)]]

mostra_attivita_senza_giorni(d, q) ==
    LET df_nan == SelectSeq(Index(d), LAMBDA k : IsNa(d[k].Tempistica_GG))
    IN IF Strip(q) # <<>> /\ ~RegexCompiles(Lower(q))
       THEN [esito |-> "errore", righe |-> <<>>]
       ELSE LET df_na == IF Strip(q) # <<>>
                         THEN SelectSeq(df_nan, LAMBDA k : RowMatches(d[k], Lower(q)))
                         ELSE df_nan
            IN IF df_na = <<>>
               THEN [esito |-> "vuoto", righe |-> <<>>]
               ELSE [esito |-> "ok", righe |-> df_na]

PerGiorno(g, q) ==
    /\ pc \in {"timeline", "per_giorno", "senza_giorni"}
    /\ giorno' = g
    /\ query' = q
    /\ per_giorno' = mostra_attivita_per_giorno(df, g, q, descrizioni)
    /\ senza_giorni' = <<>>
    /\ pc' = "per_giorno"
    /\ UNCHANGED <<paragraphs, i, descrizioni, funzione, trovata, df, vista,
                   funzione_dett, giorni_data, pagina>>

SenzaGiorni(q) ==
    /\ pc \in {"timeline", "per_giorno", "senza_giorni"}
    /\ giorno' = 0
    /\ query' = q
    /\ senza_giorni' = mostra_attivita_senza_giorni(df, q)
    /\ per_giorno' = <<>>
    /\ pc' = "senza_giorni"
    /\ UNCHANGED <<paragraphs, i, descrizioni, funzione, trovata, df, vista,
                   funzione_dett, giorni_data, pagina>>

TimelineDays == {NaN} \cup {Cell(d) : d \in 1..MaxDay}

InitTimeline ==
    /\ paragraphs = <<>> /\ i = 0 /\ descrizioni = <<>>
    /\ pc = "timeline"
    /\ funzione = <<>> /\ trovata = <<>>
    /\ df \in Datasets(Rows({NaN} \cup {Cell(f) : f \in Funzioni}, TimelineDays, Testi))
    /\ giorno = 0 /\ query = <<>> /\ per_giorno = <<>> /\ senza_giorni = <<>>
    /\ vista = "piano" /\ funzione_dett = <<>> /\ giorni_data = 0
    /\ pagina = <<>>

NextTimeline ==
    \/ \E g \in 1..(MaxDay + 1), q \in Queries : PerGiorno(g, q)
    \/ \E q \in Queries : SenzaGiorni(q)

SpecTimeline == InitTimeline /\ [][NextTimeline]_vars

-----------------------------------------------------------------------------
(* Properties of the timeline queries *)

Blank(q) == \A k \in 1..Len(q) : q[k] \in Whitespace

\* the query rule in words: the lower-cased query is a literal substring of
\* one of the four lower-cased fields, a null field never matching
LiteralIn(cell, q) == cell # NaN /\ IsSubstring(Lower(q), Lower(cell[1]))

PassesLiterally(row, q) ==
    \/ Blank(q)
    \/ LiteralIn(row.Operazione, q)
    \/ LiteralIn(row.Note, q)
    \/ LiteralIn(row.Di_cosa_ho_bisogno, q)
    \/ LiteralIn(row.Funzione, q)

StepsOf(g) == {per_giorno.gruppi[g].passi[n].riga :
                 n \in 1..Len(per_giorno.gruppi[g].passi)}

\* the rows the day view returned, over all groups
Returned == UNION {StepsOf(g) : g \in 1..Len(per_giorno.gruppi)}

DayCallReturned == pc = "per_giorno" /\ per_giorno.esito # "errore"

\* C3: every activity activities_for_day returns has day_offset = d, and q is
\* blank or the lower-cased q is a literal substring of its operation, notes,
\* requirements or function.
C3_ReturnedMatchDayAndQuery ==
    DayCallReturned =>
        \A k \in Returned :
            /\ df[k].Tempistica_GG = Cell(giorno)
            /\ PassesLiterally(df[k], query)

\* the activities left by the two filters of the day view
Filtered ==
    {k \in 1..Len(df) :
        /\ df[k].Tempistica_GG = Cell(giorno)
        /\ Blank(query) \/ RowMatches(df[k], Lower(query))}

GroupsOf(k) == {g \in 1..Len(per_giorno.gruppi) : k \in StepsOf(g)}

GroupsWellFormed ==
    /\ \A g \in 1..(Len(per_giorno.gruppi) - 1) :
           StrLess(per_giorno.gruppi[g].funzione, per_giorno.gruppi[g + 1].funzione)
    /\ \A g \in 1..Len(per_giorno.gruppi) :
           LET passi == per_giorno.gruppi[g].passi
           IN /\ passi # <<>>
              /\ \A n \in 1..Len(passi) :
                     /\ passi[n].passo = n
                     /\ passi[n].riga \in Filtered
                     /\ df[passi[n].riga].Funzione = Cell(per_giorno.gruppi[g].funzione)
              /\ \A n \in 1..(Len(passi) - 1) : passi[n].riga < passi[n + 1].riga

\* C4 as stated: groups in ascending case-sensitive order of function name,
\* one per distinct function; every filtered activity in exactly one group;
\* inside a group the dataset row order, numbered 1, 2, 3, ...
C4_EveryFilteredActivityGrouped ==
    DayCallReturned =>
        /\ GroupsWellFormed
        /\ \A k \in Filtered : Cardinality(GroupsOf(k)) = 1

\* C4 amended: the same for the filtered activities whose function is not
\* null; a filtered activity with a null function is in no group.
C4_NonNullFunctionsGrouped ==
    DayCallReturned =>
        /\ GroupsWellFormed
        /\ \A k \in Filtered :
               Cardinality(GroupsOf(k)) = IF IsNa(df[k].Funzione) THEN 0 ELSE 1

\* two groups were returned, "B" before "a"
C4_Witness ==
    /\ DayCallReturned
    /\ Len(per_giorno.gruppi) = 2
    /\ per_giorno.gruppi[1].funzione = <<"B">>
    /\ Filtered = {1, 2}

UndatedCallReturned == pc = "senza_giorni" /\ senza_giorni.esito # "errore"

InSeq(x, sq) == \E n \in 1..Len(sq) : sq[n] = x

\* C9: activities_without_day returns exactly the activities with a null
\* day_offset that pass the query rule of C3, in dataset row order; so with a
\* blank query every activity is in exactly one of the undated result and the
\* day result of its own day_offset.
C9_UndatedExactlyNullDayMatching ==
    UndatedCallReturned =>
        /\ senza_giorni.righe =
               SelectSeq(Index(df), LAMBDA k : /\ IsNa(df[k].Tempistica_GG)
                                               /\ PassesLiterally(df[k], query))
        /\ Blank(query) =>
               \A k \in 1..Len(df) :
                   InSeq(k, senza_giorni.righe)
                   <=> ~(/\ ~IsNa(df[k].Tempistica_GG)
                         /\ InSeq(k, mostra_attivita_per_giorno(
                                         df, df[k].Tempistica_GG[1], query,
                                         descrizioni).righe))

-----------------------------------------------------------------------------
(* main: the view coordinator.  Every action is one UI event followed by   *)
(* the evaluation pass (the rerun of main) it triggers.                    *)

MaxDayVista == 2
MaxGiorni == 2

\* (data_apertura - oggi).days: a date in the past, today, or up to MaxGiorni ahead
GiorniData == (-1)..MaxGiorni

TestiVista ==
    { [Operazione |-> Cell(<<"a", "B">>), Di_cosa_ho_bisogno |-> NaN,
       Note |-> Cell(<<"b", ".">>)] }

VistaDays == {NaN} \cup {Cell(d) : d \in 0..MaxDayVista}

QueriesVista == { <<>>, <<"b", "b">>, <<"(">> }

\* the documents the descriptions are loaded from
DocumentiVista ==
    { << <<"A", "b", ":", " ", QuestoCapitolo, "a">>, <<" ", "a", " ">>,
         <<SchemaRiassuntivo, "a">> >>,
      << <<"b", QuestoCapitolo, SchemaRiassuntivo>> >>,
      << <<QuestoCapitolo, " ">>, <<"b", QuestoCapitolo, SchemaRiassuntivo>> >> }

Max2(a, b) == IF a >= b THEN a ELSE b
Min2(a, b) == IF a <= b THEN a ELSE b

\* df.dropna(subset=["Tempistica_GG"])
DfNum(d) == SelectSeq(Index(d), LAMBDA k : ~IsNa(d[k].Tempistica_GG))

\* int(df_num["Tempistica_GG"].max())
MaxT(d) ==
    LET D == {d[k].Tempistica_GG[1] : k \in {n \in 1..Len(d) : ~IsNa(d[n].Tempistica_GG)}}
    IN CHOOSE m \in D : \A x \in D : x <= m

GiorniMancanti(gd) == Max2(1, gd)

GiornoDefault(d, gd) == Min2(Max2(GiorniMancanti(gd), 1), MaxT(d))

Bottoni(res) ==
    {res.gruppi[g].funzione : g \in {n \in 1..Len(res.gruppi) : res.gruppi[n].bottone}}

\* vista_dettaglio_funzione: which of the two outcomes it renders
Dettaglio(fd, descr) ==
    LET r == IF IsNa(fd) THEN <<>> ELSE trova_descrizione_funzione(fd[1], descr)
    IN IF r = <<>> \/ r[2] = <<>> THEN "nessuna_descrizione" ELSE "descrizione"

\* The evaluation pass of main with session state (v, fd) and the widget
\* values gd (date), g (slider) and q (search box).  The sidebar widgets are
\* not rendered in the detail view, so their values start afresh afterwards.
Pass(v, fd, gd, g, q) ==
    /\ vista' = v
    /\ funzione_dett' = fd
    /\ IF v = "funzione"
       THEN /\ pagina' = [vista |-> "funzione", esito |-> "ok",
                          dettaglio |-> Dettaglio(fd, descrizioni),
                          bottoni |-> {}, slider |-> <<>>]
            /\ giorni_data' = 0 /\ giorno' = 0 /\ query' = <<>>
            /\ per_giorno' = <<>> /\ senza_giorni' = <<>>
       ELSE IF DfNum(df) = <<>>
       THEN /\ pagina' = [vista |-> "piano", esito |-> "no_timeline",
                          dettaglio |-> "", bottoni |-> {}, slider |-> <<>>]
            /\ giorni_data' = gd /\ giorno' = 0 /\ query' = <<>>
            /\ per_giorno' = <<>> /\ senza_giorni' = <<>>
       ELSE LET res == mostra_attivita_per_giorno(df, g, q, descrizioni)
            IN /\ giorni_data' = gd /\ giorno' = g /\ query' = q
               /\ per_giorno' = res
               /\ senza_giorni' = IF res.esito = "errore" THEN <<>>
                                  ELSE mostra_attivita_senza_giorni(df, q)
               /\ pagina' = [vista |-> "piano",
                             esito |-> IF res.esito = "errore" THEN "errore" ELSE "ok",
                             dettaglio |-> "",
                             bottoni |-> Bottoni(res),
                             slider |-> <<1, MaxT(df), GiornoDefault(df, gd)>>]
    /\ UNCHANGED <<paragraphs, i, descrizioni, pc, funzione, trovata, df>>

DefaultOrZero(gd) == IF DfNum(df) = <<>> THEN 0 ELSE GiornoDefault(df, gd)

\* a button handler that leaves funzione_dett as it was
SelezionaSenzaDett(f) ==
    /\ pagina.vista = "piano"
    /\ f \in pagina.bottoni
    /\ Pass("funzione", funzione_dett, giorni_data, giorno, query)

\* the button "Descrizione completa funzione" of function f
SelezionaFunzione(f) ==
    /\ pagina.vista = "piano"
    /\ f \in pagina.bottoni
    /\ Pass("funzione", Cell(f), giorni_data, giorno, query)

\* the button "Torna alla guida giorno per giorno"
TornaAlPiano ==
    /\ pagina.vista = "funzione"
    /\ Pass("piano", funzione_dett, 0, DefaultOrZero(0), <<>>)

\* the slider "Giorno"
ImpostaGiorno(g) ==
    /\ pagina.vista = "piano"
    /\ pagina.esito # "no_timeline"
    /\ g \in pagina.slider[1]..pagina.slider[2]
    /\ Pass(vista, funzione_dett, giorni_data, g, query)

\* the text input "Cerca nelle attivita"
ImpostaQuery(q) ==
    /\ pagina.vista = "piano"
    /\ pagina.esito # "no_timeline"
    /\ Pass(vista, funzione_dett, giorni_data, giorno, q)

\* the date input "Data": a new default makes the slider start from it
ImpostaData(gd) ==
    /\ pagina.vista = "piano"
    /\ Pass(vista, funzione_dett, gd,
            IF DefaultOrZero(gd) # DefaultOrZero(giorni_data)
            THEN DefaultOrZero(gd) ELSE giorno,
            query)

\* the state after the first pass of a session
Init ==
    /\ paragraphs \in DocumentiVista
    /\ i = Len(paragraphs)
    /\ descrizioni = carica_descrizioni_funzioni(paragraphs)
    /\ pc = "main"
    /\ funzione = <<>> /\ trovata = <<>>
    /\ df \in Datasets(Rows({Cell(f) : f \in Funzioni}, VistaDays, TestiVista))
    /\ vista = "piano"
    /\ funzione_dett = NaN
    /\ giorni_data = 0
    /\ query = <<>>
    /\ IF DfNum(df) = <<>>
       THEN /\ giorno = 0
            /\ per_giorno = <<>> /\ senza_giorni = <<>>
            /\ pagina = [vista |-> "piano", esito |-> "no_timeline",
                         dettaglio |-> "", bottoni |-> {}, slider |-> <<>>]
       ELSE /\ giorno = GiornoDefault(df, 0)
            /\ per_giorno = mostra_attivita_per_giorno(df, giorno, <<>>, descrizioni)
            /\ senza_giorni = mostra_attivita_senza_giorni(df, <<>>)
            /\ pagina = [vista |-> "piano", esito |-> "ok", dettaglio |-> "",
                         bottoni |-> Bottoni(per_giorno),
                         slider |-> <<1, MaxT(df), GiornoDefault(df, 0)>>]

Next ==
    \/ \E f \in Funzioni : SelezionaFunzione(f)
    \/ TornaAlPiano
    \/ \E g \in 0..(MaxDayVista + 1) : ImpostaGiorno(g)
    \/ \E q \in QueriesVista : ImpostaQuery(q)
    \/ \E gd \in GiorniData : ImpostaData(gd)

Spec == Init /\ [][Next]_vars

-----------------------------------------------------------------------------
(* Properties of the view coordinator *)

Plan == <<"Plan">>
FunctionDetail(fd) == <<"FunctionDetail", fd>>

ViewState == IF vista = "piano" THEN Plan ELSE FunctionDetail(funzione_dett)

ViewStateNext == IF vista' = "piano" THEN Plan ELSE FunctionDetail(funzione_dett')

\* C1: the view state starts as Plan and changes only by
\* Plan --select(f)--> FunctionDetail(f) and FunctionDetail(f) --back--> Plan;
\* setting the day, the query or the date never changes it.
C1_OnlyTwoTransitions ==
    /\ ViewState = Plan
    /\ [][ViewStateNext # ViewState =>
             \/ /\ ViewState = Plan
                /\ \E f \in Funzioni :
                       SelezionaFunzione(f) /\ ViewStateNext = FunctionDetail(Cell(f))
             \/ /\ ViewState # Plan
                /\ TornaAlPiano
                /\ ViewStateNext = Plan]_vars

\* the detail view of "a", entered from a plan that was left before for "B"
C1_Witness ==
    /\ vista = "funzione"
    /\ funzione_dett = Cell(<<"a">>)
    /\ pagina.vista = "funzione"

PlanRendered == pagina.vista = "piano" /\ pagina.esito = "ok"

Shown == {per_giorno.gruppi[g].funzione : g \in 1..Len(per_giorno.gruppi)}

\* C2 as stated: every function shown for the selected day can be selected,
\* also one for which no section is found.
C2_EveryShownFunctionSelectable ==
    PlanRendered /\ giorno \in pagina.slider[1]..pagina.slider[2] =>
        \A f \in Shown : ENABLED SelezionaFunzione(f)

KeysMatching(f) == {n \in 1..Len(descrizioni) : FuzzyMatch(descrizioni[n].k, f)}

\* the key the resolver settles on is a non-empty title
ResolvesToTitle(f) ==
    \/ f \in Keys(descrizioni) /\ f # <<>>
    \/ /\ f \notin Keys(descrizioni)
       /\ KeysMatching(f) # {}
       /\ descrizioni[CHOOSE n \in KeysMatching(f) :
                          \A m \in KeysMatching(f) : n <= m].k # <<>>

\* C2 amended: a function shown for the selected day can be selected exactly
\* when the resolver finds a section for it under a non-empty title; the
\* detail view is therefore never entered without a description.
C2_SelectableIffResolved ==
    /\ PlanRendered =>
           \A f \in Shown : (ENABLED SelezionaFunzione(f)) <=> ResolvesToTitle(f)
    /\ pagina.vista = "funzione" => pagina.dettaglio = "descrizione"

\* a plan that shows a selectable function beside one without a section
C2_Witness ==
    /\ PlanRendered
    /\ \E f, g \in Shown :
           /\ ENABLED SelezionaFunzione(f)
           /\ ~ENABLED SelezionaFunzione(g)
           /\ KeysMatching(g) = {}

HasTimeline == \E k \in 1..Len(df) : ~IsNa(df[k].Tempistica_GG)

MaxDayOffset ==
    CHOOSE m \in {df[k].Tempistica_GG[1] : k \in {n \in 1..Len(df) : ~IsNa(df[n].Tempistica_GG)}} :
        \A k \in 1..Len(df) : ~IsNa(df[k].Tempistica_GG) => df[k].Tempistica_GG[1] <= m

\* C5: with at least one non-null day_offset the default day is
\* clamp(max(days_between, 1), 1, max_day_offset): at least 1, at most the
\* largest day_offset and a value of the selector's range 1..max_day_offset.
C5_DefaultDayInRange ==
    pagina.vista = "piano" /\ HasTimeline /\ pagina.slider # <<>> =>
        LET default == pagina.slider[3]
        IN /\ default = Min2(Max2(Max2(giorni_data, 1), 1), MaxDayOffset)
           /\ 1 <= default
           /\ default <= MaxDayOffset
           /\ default \in pagina.slider[1]..pagina.slider[2]
           /\ pagina.slider[1] = 1 /\ pagina.slider[2] = MaxDayOffset

\* C6: a pass of the plan view halts with the no-timeline error exactly when
\* no activity has a day_offset; otherwise no day, query or date makes the
\* pass fail, an empty result being a result.
C6_OnlyNoTimelineIsFatal ==
    pagina.vista = "piano" =>
        /\ pagina.esito = "no_timeline" <=> ~HasTimeline
        /\ HasTimeline => pagina.esito = "ok"

=============================================================================
